---------------------------- MODULE Spec2Model ----------------------------
(***************************************************************************)
(* A model of the NMT treap (src/hotspot/share/nmt/nmtTreap.hpp):          *)
(* Treap<K, V, COMPARATOR, ALLOCATOR> with int keys, an int comparator and *)
(* the C-heap allocator.  Nodes live in a heap `mem` indexed by address    *)
(* (a positive integer; NULL is 0); split and merge rewrite the child      *)
(* pointers of that heap as the C++ code does.                             *)
(***************************************************************************)
EXTENDS Integers, Sequences, FiniteSets, TLC

(***************************************************************************)
(* Bounds of the model.                                                    *)
(***************************************************************************)
MaxKey == 3
MaxPrio == 2

\* Keys passed to upsert and remove.
K == 1 .. MaxKey
\* Keys passed to the queries: also one below and one above every stored key.
QK == 0 .. (MaxKey + 1)
\* Values passed to upsert.
V == {1, 2}
\* The model stops inserting after this many nodes have been allocated (and
\* as many priorities drawn).
MaxDraws == MaxKey

NULL == 0

(***************************************************************************)
(* uint64_t arithmetic.  A uint64_t is five limbs, least significant       *)
(* first: four 12-bit limbs (bits 0..47) and one 16-bit limb (bits         *)
(* 48..63), so that no intermediate product exceeds 31 bits.               *)
(***************************************************************************)
Limb == 2 ^ 12
\* 0x5DEECE66D = 0x5DE * 2^24 + 0xECE * 2^12 + 0x66D
PrngMult == <<1645, 3790, 1502, 0, 0>>
PrngAdd == 11
PrngModPower == 48

\* Column i (1-based) of the schoolbook product a * b, before carries.
MulColumn(a, b, i) ==
  LET term(j) == a[j] * b[i + 1 - j]
  IN  IF i = 1 THEN term(1)
      ELSE IF i = 2 THEN term(1) + term(2)
      ELSE IF i = 3 THEN term(1) + term(2) + term(3)
      ELSE term(1) + term(2) + term(3) + term(4)

\* (PrngMult * seed + PrngAdd) & PrngModMask: the product is taken modulo
\* 2^64 and the mask keeps bits 0..PrngModPower-1, which depend only on the
\* low four limbs of the seed.
prng_next(seed) ==
  LET c1 == MulColumn(PrngMult, seed, 1) + PrngAdd
      c2 == MulColumn(PrngMult, seed, 2) + (c1 \div Limb)
      c3 == MulColumn(PrngMult, seed, 3) + (c2 \div Limb)
      c4 == MulColumn(PrngMult, seed, 4) + (c3 \div Limb)
      c  == <<c1 % Limb, c2 % Limb, c3 % Limb, c4 % Limb, 0>>
  IN  [i \in 1 .. 5 |-> IF 12 * i <= PrngModPower THEN c[i] ELSE 0]

\* a > b on uint64_t values.
u64_gt(a, b) ==
  \E i \in 1 .. 5 :
    /\ a[i] > b[i]
    /\ \A j \in (i + 1) .. 5 : a[j] = b[j]

\* a >= b on uint64_t values.
u64_geq(a, b) == a = b \/ u64_gt(a, b)

\* The constructor's seed argument: 0 and 0xFFFFFFFFFFFFFFFF.
Seeds == { <<0, 0, 0, 0, 0>>, <<4095, 4095, 4095, 4095, 65535>> }

\* COMPARATOR::cmp for int keys.
cmp(a, b) == a - b

(***************************************************************************)
(* State.                                                                  *)
(***************************************************************************)
VARIABLES
  mem,          \* address -> TreapNode: the storage of the nodes
  allocated,    \* addresses handed out by _allocator and not yet freed
  _root,        \* Treap::_root
  _prng_seed,   \* Treap::_prng_seed
  _node_count,  \* Treap::_node_count
  status,       \* "live", "destroyed", or how the process ended: "aborted",
                \* "undefined"
  draws,        \* number of allocate (and prng_next) calls so far
  M,            \* the abstract map the treap implements
  last,         \* the last public operation, its arguments and its result
  twin          \* a second Treap object, constructed with the same seed

vars ==
  <<mem, allocated, _root, _prng_seed, _node_count, status, draws, M, last,
    twin>>

\* The fields of the Treap object and the storage behind its pointers.
T ==
  [mem         |-> mem,
   allocated   |-> allocated,
   _root       |-> _root,
   _prng_seed  |-> _prng_seed,
   _node_count |-> _node_count]

\* TreapNode(k, v, p)
TreapNode(k, v, p) ==
  [_priority |-> p, _key |-> k, _value |-> v, _left |-> NULL, _right |-> NULL]

(***************************************************************************)
(* split, merge, find: the recursive helpers.  Each takes the heap and     *)
(* returns the rewritten heap with its result.                             *)
(***************************************************************************)
\* split that returns the head alone on the left, dropping the right result
\* of the recursive call.
RECURSIVE split_drops_right(_, _, _, _)
split_drops_right(m, head, key, mode) ==
  IF head = NULL
  THEN [left |-> NULL, right |-> NULL, mem |-> m]
  ELSE IF \/ (cmp(m[head]._key, key) <= 0 /\ mode = "LEQ")
          \/ (cmp(m[head]._key, key) < 0 /\ mode = "LT")
       THEN LET p == split_drops_right(m, m[head]._right, key, mode)
            IN  [left  |-> head,
                 right |-> NULL,
                 mem   |-> [p.mem EXCEPT ![head]._right = p.left]]
       ELSE LET p == split_drops_right(m, m[head]._left, key, mode)
            IN  [left  |-> p.left,
                 right |-> head,
                 mem   |-> [p.mem EXCEPT ![head]._left = p.right]]

\* split that compares with < in both modes.
RECURSIVE split_always_lt(_, _, _, _)
split_always_lt(m, head, key, mode) ==
  IF head = NULL
  THEN [left |-> NULL, right |-> NULL, mem |-> m]
  ELSE IF cmp(m[head]._key, key) < 0
       THEN LET p == split_always_lt(m, m[head]._right, key, mode)
            IN  [left  |-> head,
                 right |-> p.right,
                 mem   |-> [p.mem EXCEPT ![head]._right = p.left]]
       ELSE LET p == split_always_lt(m, m[head]._left, key, mode)
            IN  [left  |-> p.left,
                 right |-> head,
                 mem   |-> [p.mem EXCEPT ![head]._left = p.right]]

RECURSIVE split(_, _, _, _)
split(m, head, key, mode) ==
  IF head = NULL
  THEN [left |-> NULL, right |-> NULL, mem |-> m]
  ELSE IF \/ (cmp(m[head]._key, key) <= 0 /\ mode = "LEQ")
          \/ (cmp(m[head]._key, key) < 0 /\ mode = "LT")
       THEN LET p == split(m, m[head]._right, key, mode)
            IN  [left  |-> head,
                 right |-> p.right,
                 mem   |-> [p.mem EXCEPT ![head]._right = p.left]]
       ELSE LET p == split(m, m[head]._left, key, mode)
            IN  [left  |-> p.left,
                 right |-> head,
                 mem   |-> [p.mem EXCEPT ![head]._left = p.right]]

\* merge without the comparison of priorities: the left root always wins.
RECURSIVE merge_left_always_wins(_, _, _)
merge_left_always_wins(m, left, right) ==
  IF left = NULL THEN [root |-> right, mem |-> m]
  ELSE IF right = NULL THEN [root |-> left, mem |-> m]
  ELSE LET r == merge_left_always_wins(m, m[left]._right, right)
       IN  [root |-> left, mem |-> [r.mem EXCEPT ![left]._right = r.root]]

\* merge that compares priorities with <: the lower root wins.
RECURSIVE merge_lower_priority_wins(_, _, _)
merge_lower_priority_wins(m, left, right) ==
  IF left = NULL THEN [root |-> right, mem |-> m]
  ELSE IF right = NULL THEN [root |-> left, mem |-> m]
  ELSE IF u64_gt(m[right]._priority, m[left]._priority)
       THEN LET r == merge_lower_priority_wins(m, m[left]._right, right)
            IN  [root |-> left, mem |-> [r.mem EXCEPT ![left]._right = r.root]]
       ELSE LET r == merge_lower_priority_wins(m, left, m[right]._left)
            IN  [root |-> right, mem |-> [r.mem EXCEPT ![right]._left = r.root]]

\* merge that compares priorities with >=: on a tie the left root wins.
RECURSIVE merge_left_wins_ties(_, _, _)
merge_left_wins_ties(m, left, right) ==
  IF left = NULL THEN [root |-> right, mem |-> m]
  ELSE IF right = NULL THEN [root |-> left, mem |-> m]
  ELSE IF u64_geq(m[left]._priority, m[right]._priority)
       THEN LET r == merge_left_wins_ties(m, m[left]._right, right)
            IN  [root |-> left, mem |-> [r.mem EXCEPT ![left]._right = r.root]]
       ELSE LET r == merge_left_wins_ties(m, left, m[right]._left)
            IN  [root |-> right, mem |-> [r.mem EXCEPT ![right]._left = r.root]]

RECURSIVE merge(_, _, _)
merge(m, left, right) ==
  IF left = NULL THEN [root |-> right, mem |-> m]
  ELSE IF right = NULL THEN [root |-> left, mem |-> m]
  ELSE IF u64_gt(m[left]._priority, m[right]._priority)
       THEN LET r == merge(m, m[left]._right, right)
            IN  [root |-> left, mem |-> [r.mem EXCEPT ![left]._right = r.root]]
       ELSE LET r == merge(m, left, m[right]._left)
            IN  [root |-> right, mem |-> [r.mem EXCEPT ![right]._left = r.root]]

\* find descending to the wrong side.
RECURSIVE find_wrong_side(_, _, _)
find_wrong_side(m, node, k) ==
  IF node = NULL THEN NULL
  ELSE LET key_cmp_k == cmp(m[node]._key, k)
       IN  IF key_cmp_k = 0 THEN node
           ELSE IF key_cmp_k < 0 THEN find_wrong_side(m, m[node]._left, k)
           ELSE find_wrong_side(m, m[node]._right, k)

RECURSIVE find(_, _, _)
find(m, node, k) ==
  IF node = NULL THEN NULL
  ELSE LET key_cmp_k == cmp(m[node]._key, k)
       IN  IF key_cmp_k = 0 THEN node
           ELSE IF key_cmp_k < 0 THEN find(m, m[node]._right, k)
           ELSE find(m, m[node]._left, k)


(***************************************************************************)
(* The iterative queries.  Each loop is a recursive operator over the      *)
(* loop's local variables; a traversal returns the sequence of nodes it    *)
(* hands to the visitor f.                                                 *)
(***************************************************************************)
Pop(stack) == SubSeq(stack, 1, Len(stack) - 1)
Top(stack) == stack[Len(stack)]

\* closest_leq that forgets the candidate when it descends right.
RECURSIVE closest_leq_loop_no_candidate(_, _, _, _)
closest_leq_loop_no_candidate(m, pos, candidate, key) ==
  IF pos = NULL THEN candidate
  ELSE LET cmp_r == cmp(m[pos]._key, key)
       IN  IF cmp_r = 0 THEN pos
           ELSE IF cmp_r < 0
           THEN closest_leq_loop_no_candidate(m, m[pos]._right, candidate, key)
           ELSE closest_leq_loop_no_candidate(m, m[pos]._left, candidate, key)

\* The while loop of closest_leq.
RECURSIVE closest_leq_loop(_, _, _, _)
closest_leq_loop(m, pos, candidate, key) ==
  IF pos = NULL THEN candidate
  ELSE LET cmp_r == cmp(m[pos]._key, key)
       IN  IF cmp_r = 0 THEN pos
           ELSE IF cmp_r < 0 THEN closest_leq_loop(m, m[pos]._right, pos, key)
           ELSE closest_leq_loop(m, m[pos]._left, candidate, key)

\* TreapNode* closest_leq(const K& key)
closest_leq(m, root, key) == closest_leq_loop(m, root, NULL, key)

\* The loops of visit_in_order: push the left spine, pop, visit, go right.
RECURSIVE visit_loop(_, _, _, _)
visit_loop(m, to_visit, head, out) ==
  IF to_visit = << >> /\ head = NULL THEN out
  ELSE IF head # NULL
       THEN visit_loop(m, Append(to_visit, head), m[head]._left, out)
       ELSE LET h == Top(to_visit)
            IN  visit_loop(m, Pop(to_visit), m[h]._right, Append(out, h))

\* void visit_in_order(F f) const
visit_in_order(m, root) == visit_loop(m, << >>, root, << >>)

\* The inner while loop of visit_range_in_order: the stack it leaves.
RECURSIVE range_descend(_, _, _, _)
range_descend(m, to_visit, head, from) ==
  IF head = NULL THEN to_visit
  ELSE LET cmp_from == cmp(m[head]._key, from)
       IN  IF cmp_from >= 0
           THEN range_descend(m, Append(to_visit, head), m[head]._left, from)
           ELSE Append(to_visit, head)

\* visit_range_in_order that treats `to` as inclusive.
RECURSIVE range_loop_to_inclusive(_, _, _, _, _, _)
range_loop_to_inclusive(m, to_visit, head, from, to, out) ==
  IF to_visit = << >> /\ head = NULL THEN out
  ELSE LET stack    == range_descend(m, to_visit, head, from)
           h        == Top(stack)
           cmp_from == cmp(m[h]._key, from)
           cmp_to   == cmp(m[h]._key, to)
           visited  == IF cmp_from >= 0 /\ cmp_to <= 0 THEN Append(out, h) ELSE out
           next     == IF cmp_to < 0 THEN m[h]._right ELSE NULL
       IN  range_loop_to_inclusive(m, Pop(stack), next, from, to, visited)

\* The outer while loop of visit_range_in_order.
RECURSIVE range_loop(_, _, _, _, _, _)
range_loop(m, to_visit, head, from, to, out) ==
  IF to_visit = << >> /\ head = NULL THEN out
  ELSE LET stack    == range_descend(m, to_visit, head, from)
           h        == Top(stack)
           cmp_from == cmp(m[h]._key, from)
           cmp_to   == cmp(m[h]._key, to)
           visited  == IF cmp_from >= 0 /\ cmp_to < 0 THEN Append(out, h) ELSE out
           next     == IF cmp_to < 0 THEN m[h]._right ELSE NULL
       IN  range_loop(m, Pop(stack), next, from, to, visited)

\* void visit_range_in_order(const K& from, const K& to, F f)
visit_range_in_order(m, root, from, to) ==
  range_loop(m, << >>, root, from, to, << >>)

(***************************************************************************)
(* verify_self: the assertions upsert and remove run first.                *)
(***************************************************************************)
\* constexpr const uint64_t positive_infinity = 0xFFFFFFFFFFFFFFFF
positive_infinity == <<4095, 4095, 4095, 4095, 65535>>

\* (int)(log(_node_count + 1) * 5) for _node_count = 0 .. 11.
expected_maximum_depth(node_count) ==
  <<0, 3, 5, 6, 8, 8, 9, 10, 10, 11, 11, 12>>[node_count + 1]

MAX2(a, b) == IF a > b THEN a ELSE b

\* The DFS loop of verify_self: FALSE in `prio` when the priority assertion
\* fails, and the maximum depth found.
RECURSIVE verify_dfs(_, _, _)
verify_dfs(m, to_visit, maximum_depth_found) ==
  IF to_visit = << >>
  THEN [prio |-> TRUE, depth |-> maximum_depth_found]
  ELSE LET head == Top(to_visit)
       IN  IF head.n = NULL
           THEN verify_dfs(m, Pop(to_visit), maximum_depth_found)
           ELSE IF ~ u64_geq(head.parent_prio, m[head.n]._priority)
           THEN [prio |-> FALSE, depth |-> maximum_depth_found]
           ELSE verify_dfs(
                  m,
                  Pop(to_visit) \o
                    << [depth |-> head.depth + 1,
                        parent_prio |-> m[head.n]._priority,
                        n |-> m[head.n]._left],
                       [depth |-> head.depth + 1,
                        parent_prio |-> m[head.n]._priority,
                        n |-> m[head.n]._right] >>,
                  MAX2(maximum_depth_found, head.depth))

\* The visitor lambda of verify_self, run over the nodes visit_in_order
\* hands it from the i-th on: the locals last_seen, failed and seen_count
\* at the end of the walk.
RECURSIVE verify_visitor(_, _, _, _, _, _)
verify_visitor(m, nodes, i, last_seen, failed, seen_count) ==
  IF i > Len(nodes)
  THEN [last_seen |-> last_seen, failed |-> failed, seen_count |-> seen_count]
  ELSE IF last_seen = NULL
  THEN verify_visitor(m, nodes, i + 1, nodes[i], failed, seen_count + 1)
  ELSE IF cmp(m[last_seen]._key, m[nodes[i]]._key) > 0
  THEN verify_visitor(m, nodes, i + 1, nodes[i], FALSE, seen_count + 1)
  ELSE verify_visitor(m, nodes, i + 1, nodes[i], failed, seen_count + 1)

\* void verify_self(): the message of the first assertion that fails, or
\* "" when all four hold.
verify_self(t) ==
  LET dfs   == verify_dfs(t.mem,
                          << [depth |-> 0,
                              parent_prio |-> positive_infinity,
                              n |-> t._root] >>,
                          0)
      nodes == visit_in_order(t.mem, t._root)
      walk  == verify_visitor(t.mem, nodes, 1, NULL, FALSE, 0)
  IN  IF ~ dfs.prio THEN "broken priority invariant"
      ELSE IF ~ (dfs.depth <= expected_maximum_depth(t._node_count))
      THEN "depth unexpectedly large"
      ELSE IF walk.seen_count # t._node_count
      THEN "the number of visited nodes do not match with the number of stored nodes"
      ELSE IF walk.failed
      THEN "keys was not monotonically strongly increasing when visiting in order"
      ELSE ""

(***************************************************************************)
(* The allocator and the public mutators, as functions of the treap t      *)
(* (the record T of its fields and storage).                               *)
(***************************************************************************)
\* TreapCHeapAllocator::allocate: the addresses os::malloc may return, none
\* of them in use.  Storage nothing points to is interchangeable, so of it
\* the model takes the next address never handed out (`fresh`); the other
\* candidates are freed nodes the treap still points to.
allocate(t, fresh) == {fresh} \cup (DOMAIN t.mem \ t.allocated)

\* TreapCHeapAllocator::free
free(inuse, ptr) == inuse \ {ptr}

\* Treap(uint64_t seed)
Treap(seed) ==
  [mem         |-> << >>,
   allocated   |-> {},
   _root       |-> NULL,
   _prng_seed  |-> seed,
   _node_count |-> 0]

\* new (node_place) TreapNode(k, v, prio)
construct(m, node_place, k, v, prio) ==
  [a \in DOMAIN m \cup {node_place} |->
     IF a = node_place THEN TreapNode(k, v, prio) ELSE m[a]]

\* upsert that updates the value of a key it found and, lacking the early
\* return, goes on to insert a node.
upsert_body_no_return(t, k, v, node_place) ==
  LET found    == find(t.mem, t._root, k)
      m0       == IF found # NULL
                  THEN [t.mem EXCEPT ![found]._value = v]
                  ELSE t.mem
      prio     == prng_next(t._prng_seed)
      node     == node_place
      m1       == construct(m0, node_place, k, v, prio)
      split_up == split(m1, t._root, k, "LEQ")
      inner    == merge(split_up.mem, split_up.left, node)
      outer    == merge(inner.mem, inner.root, split_up.right)
  IN  [mem         |-> outer.mem,
       allocated   |-> t.allocated \cup {node_place},
       _root       |-> outer.root,
       _prng_seed  |-> prio,
       _node_count |-> t._node_count + 1]

\* upsert that takes the new node's priority from its address instead of
\* prng_next.
upsert_body_prio_from_address(t, k, v, node_place) ==
  LET found == find(t.mem, t._root, k)
  IN  IF found # NULL
      THEN [t EXCEPT !.mem[found]._value = v]
      ELSE LET prio       == <<node_place, 0, 0, 0, 0>>
               node       == node_place
               m1         == construct(t.mem, node_place, k, v, prio)
               split_up   == split(m1, t._root, k, "LEQ")
               inner      == merge(split_up.mem, split_up.left, node)
               outer      == merge(inner.mem, inner.root, split_up.right)
           IN  [mem         |-> outer.mem,
                allocated   |-> t.allocated \cup {node_place},
                _root       |-> outer.root,
                _prng_seed  |-> prng_next(t._prng_seed),
                _node_count |-> t._node_count + 1]

\* upsert after verify_self; node_place is what _allocator.allocate returns
\* if it is called.
upsert_body(t, k, v, node_place) ==
  LET found == find(t.mem, t._root, k)
  IN  IF found # NULL
      THEN [t EXCEPT !.mem[found]._value = v]
      ELSE LET prio       == prng_next(t._prng_seed)
               node       == node_place
               m1         == construct(t.mem, node_place, k, v, prio)
               split_up   == split(m1, t._root, k, "LEQ")
               inner      == merge(split_up.mem, split_up.left, node)
               outer      == merge(inner.mem, inner.root, split_up.right)
           IN  [mem         |-> outer.mem,
                allocated   |-> t.allocated \cup {node_place},
                _root       |-> outer.root,
                _prng_seed  |-> prio,
                _node_count |-> t._node_count + 1]

\* void upsert(const K& k, const V& v): the treap it leaves, and the
\* assertion of verify_self that stopped it, if one did.
upsert(t, k, v, node_place) ==
  LET msg == verify_self(t)
  IN  IF msg # "" THEN [treap |-> t, assert |-> msg]
      ELSE [treap |-> upsert_body(t, k, v, node_place), assert |-> ""]

\* remove that frees the node and forgets _node_count--.
remove_body_keeps_count(t, k) ==
  LET first_split  == split(t.mem, t._root, k, "LEQ")
      second_split == split(first_split.mem, first_split.left, k, "LT")
      merged       == merge(second_split.mem, second_split.left, first_split.right)
  IN  [mem         |-> merged.mem,
       allocated   |-> IF second_split.right # NULL
                       THEN free(t.allocated, second_split.right)
                       ELSE t.allocated,
       _root       |-> merged.root,
       _prng_seed  |-> t._prng_seed,
       _node_count |-> t._node_count]

\* remove whose second split uses LEQ instead of LT.
remove_body_second_split_leq(t, k) ==
  LET first_split  == split(t.mem, t._root, k, "LEQ")
      second_split == split(first_split.mem, first_split.left, k, "LEQ")
      merged       == merge(second_split.mem, second_split.left, first_split.right)
  IN  IF second_split.right # NULL
      THEN [mem         |-> merged.mem,
            allocated   |-> free(t.allocated, second_split.right),
            _root       |-> merged.root,
            _prng_seed  |-> t._prng_seed,
            _node_count |-> t._node_count - 1]
      ELSE [mem         |-> merged.mem,
            allocated   |-> t.allocated,
            _root       |-> merged.root,
            _prng_seed  |-> t._prng_seed,
            _node_count |-> t._node_count]

\* remove that merges the two remaining trees in the wrong order.
remove_body_merge_swapped(t, k) ==
  LET first_split  == split(t.mem, t._root, k, "LEQ")
      second_split == split(first_split.mem, first_split.left, k, "LT")
      merged       == merge(second_split.mem, first_split.right, second_split.left)
  IN  IF second_split.right # NULL
      THEN [mem         |-> merged.mem,
            allocated   |-> free(t.allocated, second_split.right),
            _root       |-> merged.root,
            _prng_seed  |-> t._prng_seed,
            _node_count |-> t._node_count - 1]
      ELSE [mem         |-> merged.mem,
            allocated   |-> t.allocated,
            _root       |-> merged.root,
            _prng_seed  |-> t._prng_seed,
            _node_count |-> t._node_count]

\* The two splits of remove without the first: the whole tree is split
\* in mode LT.
remove_splits_no_first_split(t, k) ==
  LET first_split  == [left |-> t._root, right |-> NULL, mem |-> t.mem]
      second_split == split(first_split.mem, first_split.left, k, "LT")
  IN  [first_split |-> first_split, second_split |-> second_split]

\* The two splits of remove: (LEQ_k, GT_k), then (LT_k, EQ_k) of LEQ_k.
remove_splits(t, k) ==
  LET first_split  == split(t.mem, t._root, k, "LEQ")
      second_split == split(first_split.mem, first_split.left, k, "LT")
  IN  [first_split |-> first_split, second_split |-> second_split]

\* remove after verify_self.
remove_body(t, k) ==
  LET first_split  == remove_splits(t, k).first_split
      second_split == remove_splits(t, k).second_split
      merged       == merge(second_split.mem, second_split.left, first_split.right)
  IN  IF second_split.right # NULL
      THEN [mem         |-> merged.mem,
            allocated   |-> free(t.allocated, second_split.right),
            _root       |-> merged.root,
            _prng_seed  |-> t._prng_seed,
            _node_count |-> t._node_count - 1]
      ELSE [mem         |-> merged.mem,
            allocated   |-> t.allocated,
            _root       |-> merged.root,
            _prng_seed  |-> t._prng_seed,
            _node_count |-> t._node_count]

\* void remove(const K& k)
remove(t, k) ==
  LET msg == verify_self(t)
  IN  IF msg # "" THEN [treap |-> t, assert |-> msg]
      ELSE [treap |-> remove_body(t, k), assert |-> ""]

\* remove_all that pushes only the left child of each node it frees.
RECURSIVE remove_all_loop_forgets_right(_, _, _, _)
remove_all_loop_forgets_right(m, to_delete, inuse, frees) ==
  IF to_delete = << >> THEN [allocated |-> inuse, frees |-> frees]
  ELSE LET head == Top(to_delete)
       IN  IF head = NULL
           THEN remove_all_loop_forgets_right(m, Pop(to_delete), inuse, frees)
           ELSE remove_all_loop_forgets_right(
                  m,
                  Pop(to_delete) \o <<m[head]._left>>,
                  free(inuse, head),
                  Append(frees, head))

\* The while loop of remove_all: the storage still allocated at its end and
\* the pointers it passed to _allocator.free, in order.
RECURSIVE remove_all_loop(_, _, _, _)
remove_all_loop(m, to_delete, inuse, frees) ==
  IF to_delete = << >> THEN [allocated |-> inuse, frees |-> frees]
  ELSE LET head == Top(to_delete)
       IN  IF head = NULL
           THEN remove_all_loop(m, Pop(to_delete), inuse, frees)
           ELSE remove_all_loop(
                  m,
                  Pop(to_delete) \o <<m[head]._left, m[head]._right>>,
                  free(inuse, head),
                  Append(frees, head))

\* void remove_all(): the treap it leaves and the pointers it freed.
remove_all(t) ==
  LET r == remove_all_loop(t.mem, <<t._root>>, t.allocated, << >>)
  IN  [treap |-> [t EXCEPT !._node_count = 0, !.allocated = r.allocated],
       frees |-> r.frees]

(***************************************************************************)
(* The queries as calls on the treap t: the treap each call leaves and     *)
(* what it returns (a traversal: the nodes it hands to f).  None of them   *)
(* assigns a field of the treap or of a node.                              *)
(***************************************************************************)
call_find(t, k) ==
  [treap |-> t, ret |-> find(t.mem, t._root, k)]

\* closest_leq that walks down with _root itself instead of the local pos.
call_closest_leq_moves_root(t, key) ==
  LET candidate == closest_leq(t.mem, t._root, key)
  IN  [treap |-> [t EXCEPT !._root = find(t.mem, t._root, key)],
       ret   |-> candidate]

call_closest_leq(t, key) ==
  [treap |-> t, ret |-> closest_leq(t.mem, t._root, key)]

call_visit_in_order(t) ==
  [treap |-> t, ret |-> visit_in_order(t.mem, t._root)]

call_visit_range_in_order(t, from, to) ==
  [treap |-> t, ret |-> visit_range_in_order(t.mem, t._root, from, to)]

(***************************************************************************)
(* Storage.  Freed storage that no pointer of the treap leads to is never  *)
(* read again, so the model forgets its contents; freed storage the treap  *)
(* still points to keeps its last contents.                                *)
(***************************************************************************)
RECURSIVE Reach(_, _, _)
Reach(m, frontier, seen) ==
  LET new == (frontier \ seen) \ {NULL}
  IN  IF new = {} THEN seen
      ELSE Reach(m,
                 {m[a]._left : a \in new} \cup {m[a]._right : a \in new},
                 seen \cup new)

\* The nodes the treap's pointers lead to.
Nodes(m, root) == Reach(m, {root}, {})

Storage(t) ==
  LET keep == t.allocated \cup Nodes(t.mem, t._root)
  IN  [a \in keep |-> t.mem[a]]

\* The treap t becomes the state of the object.
Becomes(t) ==
  /\ mem' = Storage(t)
  /\ allocated' = t.allocated
  /\ _root' = t._root
  /\ _prng_seed' = t._prng_seed
  /\ _node_count' = t._node_count

TreapVars == <<mem, allocated, _root, _prng_seed, _node_count>>

\* Every node the treap points to is allocated storage: the operations'
\* reads and frees are defined.
Defined == Nodes(mem, _root) \subseteq allocated

(***************************************************************************)
(* The operations of the treap as actions.                                 *)
(***************************************************************************)
\* Treap(uint64_t seed)
Init ==
  /\ mem = << >>
  /\ allocated = {}
  /\ _root = NULL
  /\ _prng_seed \in Seeds
  /\ _node_count = 0
  /\ status = "live"
  /\ draws = 0
  /\ M = << >>
  /\ last = [op |-> "Treap"]
  /\ twin = Treap(_prng_seed)

\* upsert(k, v); a new key is inserted only while the model's bound on
\* allocations allows.
Upsert(k, v) ==
  /\ status = "live"
  /\ UNCHANGED twin
  /\ Defined
  /\ find(mem, _root, k) = NULL => draws < MaxDraws
  /\ \E node_place \in allocate(T, draws + 1) :
       LET r == upsert(T, k, v, node_place)
           inserted == r.treap.allocated # allocated
       IN  IF r.assert # ""
           THEN /\ status' = "aborted"
                /\ last' = [op |-> "upsert", k |-> k, assert |-> r.assert]
                /\ UNCHANGED <<TreapVars, draws, M>>
           ELSE /\ Becomes(r.treap)
                /\ draws' = IF inserted THEN draws + 1 ELSE draws
                /\ M' = [x \in DOMAIN M \cup {k} |-> IF x = k THEN v ELSE M[x]]
                /\ last' = [op |-> "upsert", k |-> k,
                            path |-> IF inserted THEN "insert" ELSE "update"]
                /\ UNCHANGED status

\* remove(k)
Remove(k) ==
  /\ status = "live"
  /\ UNCHANGED twin
  /\ Defined
  /\ LET r == remove(T, k)
         freed == r.treap.allocated # allocated
     IN  IF r.assert # ""
         THEN /\ status' = "aborted"
              /\ last' = [op |-> "remove", k |-> k, assert |-> r.assert]
              /\ UNCHANGED <<TreapVars, draws, M>>
         ELSE /\ Becomes(r.treap)
              /\ M' = [x \in DOMAIN M \ {k} |-> M[x]]
              /\ last' = [op |-> "remove", k |-> k,
                          path |-> IF freed THEN "free" ELSE "absent"]
              /\ UNCHANGED <<status, draws>>

\* find(_root, k), as the friend test classes call it
Find(k) ==
  /\ status = "live"
  /\ UNCHANGED twin
  /\ LET r == call_find(T, k)
     IN  /\ Becomes(r.treap)
         /\ last' = [op |-> "find", k |-> k, ret |-> r.ret]
  /\ UNCHANGED <<status, draws, M>>

\* closest_leq(key)
ClosestLeq(key) ==
  /\ status = "live"
  /\ UNCHANGED twin
  /\ LET r == call_closest_leq(T, key)
     IN  /\ Becomes(r.treap)
         /\ last' = [op |-> "closest_leq", k |-> key, ret |-> r.ret]
  /\ UNCHANGED <<status, draws, M>>

\* visit_in_order(f)
VisitInOrder ==
  /\ status = "live"
  /\ UNCHANGED twin
  /\ LET r == call_visit_in_order(T)
     IN  /\ Becomes(r.treap)
         /\ last' = [op |-> "visit_in_order", ret |-> r.ret]
  /\ UNCHANGED <<status, draws, M>>

\* visit_range_in_order(from, to, f)
VisitRangeInOrder(from, to) ==
  /\ status = "live"
  /\ UNCHANGED twin
  /\ LET r == call_visit_range_in_order(T, from, to)
     IN  /\ Becomes(r.treap)
         /\ last' = [op |-> "visit_range_in_order", from |-> from, to |-> to,
                     ret |-> r.ret]
  /\ UNCHANGED <<status, draws, M>>

Next ==
  \/ \E k \in K, v \in V : Upsert(k, v)
  \/ \E k \in K : Remove(k)

\* Any sequence of upsert and remove calls on a freshly constructed treap.
Spec == Init /\ [][Next]_vars

\* A treap whose generator has gone round once.  prng_next maps the low 48
\* bits of the seed by x -> (PrngMult * x + PrngAdd) mod 2^48, a bijection
\* (PrngMult is odd), so the seeds after the first draw recur: after
\* upsert(k, v) on a fresh treap and upsert(j, _), remove(j) repeated for
\* the rest of the period (j # k), the node of key k still has the first
\* priority drawn and _prng_seed is the low 48 bits of the constructor's
\* seed, the value the first priority follows.
InitPeriod ==
  /\ \E seed \in Seeds, k \in K, v \in V : \E j \in K \ {k} :
       /\ _prng_seed = [i \in 1 .. 5 |->
                          IF 12 * i <= PrngModPower THEN seed[i] ELSE 0]
       /\ mem = [a \in {1} |-> TreapNode(k, v, prng_next(seed))]
       /\ M = [x \in {k} |-> v]
       /\ last = [op |-> "remove", k |-> j, path |-> "free"]
  /\ allocated = {1}
  /\ _root = 1
  /\ _node_count = 1
  /\ status = "live"
  /\ draws = 1
  /\ twin = Treap(_prng_seed)

\* Any sequence of upsert and remove calls from there.
SpecPeriod == InitPeriod /\ [][Next]_vars

NextQuery ==
  \/ \E k \in QK : Find(k)
  \/ \E k \in QK : ClosestLeq(k)
  \/ VisitInOrder
  \/ \E from \in QK, to \in QK : VisitRangeInOrder(from, to)

\* remove_all()
RemoveAll ==
  /\ status = "live"
  /\ UNCHANGED twin
  /\ Defined
  /\ LET r == remove_all(T)
     IN  /\ Becomes(r.treap)
         /\ last' = [op |-> "remove_all", frees |-> r.frees]
  /\ M' = << >>
  /\ UNCHANGED <<status, draws>>

\* ~Treap()
Destroy ==
  /\ status = "live"
  /\ UNCHANGED twin
  /\ Defined
  /\ LET r == remove_all(T)
     IN  /\ Becomes(r.treap)
         /\ last' = [op |-> "~Treap", frees |-> r.frees]
  /\ M' = << >>
  /\ status' = "destroyed"
  /\ UNCHANGED draws

(***************************************************************************)
(* The operations on a treap whose _root points to freed storage.  Their   *)
(* reads of the freed nodes and their second free of them are undefined    *)
(* behaviour: either the process dies at once, or the freed storage still  *)
(* holds what was last written to it and the operation runs on that; the   *)
(* model follows the process no further ("undefined").                     *)
(***************************************************************************)
\* The process dies in operation op.
Dies(op) ==
  /\ status' = "aborted"
  /\ last' = [op |-> op, assert |-> "use after free"]
  /\ UNCHANGED <<TreapVars, draws, M>>

\* upsert(k, v) through a dangling _root
UpsertFreed(k, v) ==
  /\ status = "live"
  /\ UNCHANGED twin
  /\ ~ Defined
  /\ \/ Dies("upsert")
     \/ \E node_place \in allocate(T, draws + 1) :
          LET r == upsert(T, k, v, node_place)
          IN  IF r.assert # ""
              THEN /\ status' = "aborted"
                   /\ last' = [op |-> "upsert", k |-> k, assert |-> r.assert]
                   /\ UNCHANGED <<TreapVars, draws, M>>
              ELSE /\ Becomes(r.treap)
                   /\ status' = "undefined"
                   /\ last' = [op |-> "upsert", k |-> k, path |-> "undefined"]
                   /\ UNCHANGED <<draws, M>>

\* remove(k) through a dangling _root
RemoveFreed(k) ==
  /\ status = "live"
  /\ UNCHANGED twin
  /\ ~ Defined
  /\ \/ Dies("remove")
     \/ LET r == remove(T, k)
        IN  IF r.assert # ""
            THEN /\ status' = "aborted"
                 /\ last' = [op |-> "remove", k |-> k, assert |-> r.assert]
                 /\ UNCHANGED <<TreapVars, draws, M>>
            ELSE /\ Becomes(r.treap)
                 /\ status' = "undefined"
                 /\ last' = [op |-> "remove", k |-> k, path |-> "undefined"]
                 /\ UNCHANGED <<draws, M>>

\* remove_all() or ~Treap() through a dangling _root: every node is freed a
\* second time.
RemoveAllFreed(op) ==
  /\ status = "live"
  /\ UNCHANGED twin
  /\ ~ Defined
  /\ \/ Dies(op)
     \/ LET r == remove_all(T)
        IN  /\ Becomes(r.treap)
            /\ status' = "undefined"
            /\ last' = [op |-> op, frees |-> r.frees]
            /\ UNCHANGED <<draws, M>>

NextAll ==
  \/ Next
  \/ RemoveAll
  \/ Destroy
  \/ \E k \in K, v \in V : UpsertFreed(k, v)
  \/ \E k \in K : RemoveFreed(k)
  \/ \E op \in {"remove_all", "~Treap"} : RemoveAllFreed(op)

\* The whole life of a treap: upsert, remove and remove_all calls, and its
\* destruction.
SpecAll == Init /\ [][NextAll]_vars

(***************************************************************************)
(* Two Treap objects constructed with the same seed and given the same     *)
(* calls.  The allocator hands the second one (twin) its nodes at other    *)
(* addresses: the same ones in the opposite order.                         *)
(***************************************************************************)
\* t.upsert(k, v); twin.upsert(k, v)
UpsertBoth(k, v) ==
  /\ status = "live"
  /\ find(mem, _root, k) = NULL => draws < MaxDraws
  /\ \E node_place \in allocate(T, draws + 1),
        twin_place \in allocate(twin, MaxDraws - draws) :
       LET r        == upsert(T, k, v, node_place)
           r2       == upsert(twin, k, v, twin_place)
           inserted == r.treap.allocated # allocated
       IN  /\ Becomes(r.treap)
           /\ twin' = [r2.treap EXCEPT !.mem = Storage(r2.treap)]
           /\ status' = IF r.assert # "" \/ r2.assert # ""
                        THEN "aborted" ELSE "live"
           /\ draws' = IF inserted THEN draws + 1 ELSE draws
           /\ M' = IF r.assert # "" THEN M
                   ELSE [x \in DOMAIN M \cup {k} |-> IF x = k THEN v ELSE M[x]]
           /\ last' = [op |-> "upsert", k |-> k,
                       path |-> IF inserted THEN "insert" ELSE "update",
                       assert |-> r.assert, twin_assert |-> r2.assert]

\* t.remove(k); twin.remove(k)
RemoveBoth(k) ==
  /\ status = "live"
  /\ LET r     == remove(T, k)
         r2    == remove(twin, k)
         freed == r.treap.allocated # allocated
     IN  /\ Becomes(r.treap)
         /\ twin' = [r2.treap EXCEPT !.mem = Storage(r2.treap)]
         /\ status' = IF r.assert # "" \/ r2.assert # ""
                      THEN "aborted" ELSE "live"
         /\ M' = IF r.assert # "" THEN M ELSE [x \in DOMAIN M \ {k} |-> M[x]]
         /\ last' = [op |-> "remove", k |-> k,
                     path |-> IF freed THEN "free" ELSE "absent",
                     assert |-> r.assert, twin_assert |-> r2.assert]
  /\ UNCHANGED draws

\* Both objects take their keys from all of K but its largest.
NextTwin ==
  \/ \E k \in K \ {MaxKey}, v \in V : UpsertBoth(k, v)
  \/ \E k \in K \ {MaxKey} : RemoveBoth(k)

\* The same sequence of upsert and remove calls on both objects.
SpecTwin == Init /\ [][NextTwin]_vars

(***************************************************************************)
(* split and merge on their own: the static functions applied to any       *)
(* valid treap, priorities that tie included.  The node of key k lives at  *)
(* address k.                                                              *)
(***************************************************************************)
\* The priorities of the enumerated treaps: 1 .. MaxPrio as uint64_t.
Prios == { <<p, 0, 0, 0, 0>> : p \in 1 .. MaxPrio }

\* The node of key r and priority p above the treaps L and R.
Join(r, p, L, R) ==
  [root |-> r,
   mem  |-> [a \in DOMAIN L.mem \cup DOMAIN R.mem \cup {r} |->
               IF a = r
               THEN [TreapNode(r, 1, p) EXCEPT !._left = L.root, !._right = R.root]
               ELSE IF a \in DOMAIN L.mem THEN L.mem[a] ELSE R.mem[a]]]

\* Every treap over the key set S: a search tree on the keys in which no
\* child's priority exceeds its parent's.
RECURSIVE Treaps(_)
Treaps(S) ==
  IF S = {} THEN { [root |-> NULL, mem |-> << >>] }
  ELSE UNION {
         LET below == Treaps({ x \in S : x < r })
             above == Treaps({ x \in S : x > r })
             parts == { c \in Prios \X below \X above :
                          /\ c[2].root # NULL =>
                               u64_geq(c[1], c[2].mem[c[2].root]._priority)
                          /\ c[3].root # NULL =>
                               u64_geq(c[1], c[3].mem[c[3].root]._priority) }
         IN  { Join(r, c[1], c[2], c[3]) : c \in parts }
         : r \in S }

\* A valid treap over some keys of K.
InitSplitMerge ==
  /\ \E S \in SUBSET K : \E tr \in Treaps(S) :
       /\ mem = tr.mem
       /\ _root = tr.root
       /\ allocated = S
       /\ _node_count = Cardinality(S)
       /\ M = [k \in S |-> 1]
  /\ _prng_seed = <<0, 0, 0, 0, 0>>
  /\ status = "live"
  /\ draws = 0
  /\ last = [op |-> "treap"]
  /\ twin = Treap(_prng_seed)

\* node_pair p = split(_root, key, mode)
SplitStep(key, mode) ==
  /\ last.op = "treap"
  /\ UNCHANGED twin
  /\ LET p == split(mem, _root, key, mode)
     IN  /\ mem' = p.mem
         /\ last' = [op |-> "split", k |-> key, mode |-> mode,
                     left |-> p.left, right |-> p.right]
  /\ UNCHANGED <<allocated, _root, _prng_seed, _node_count, status, draws, M>>

\* merge(left, right)
MergeStep ==
  /\ last.op \in {"split", "pair"}
  /\ UNCHANGED twin
  /\ LET r == merge(mem, last.left, last.right)
     IN  /\ mem' = r.mem
         /\ last' = [last EXCEPT !.op = "merge"] @@ [root |-> r.root]
  /\ UNCHANGED <<allocated, _root, _prng_seed, _node_count, status, draws, M>>

NextSplitMerge ==
  \/ \E key \in QK, mode \in {"LT", "LEQ"} : SplitStep(key, mode)
  \/ MergeStep

\* One split of a valid treap, and the merge of its two results.
SpecSplitMerge == InitSplitMerge /\ [][NextSplitMerge]_vars

\* Two valid treaps, every key of the first below every key of the second.
InitMerge ==
  /\ \E S \in SUBSET K, c \in QK :
       \E L \in Treaps({ x \in S : x <= c }), R \in Treaps({ x \in S : x > c }) :
         /\ mem = [a \in S |-> IF a \in DOMAIN L.mem THEN L.mem[a] ELSE R.mem[a]]
         /\ allocated = S
         /\ M = [k \in S |-> 1]
         /\ last = [op |-> "pair", left |-> L.root, right |-> R.root]
  /\ _root = NULL
  /\ _node_count = 0
  /\ _prng_seed = <<0, 0, 0, 0, 0>>
  /\ status = "live"
  /\ draws = 0
  /\ twin = Treap(_prng_seed)

\* One merge of two such treaps.
SpecMerge == InitMerge /\ [][MergeStep]_vars

\* A tree of the right node count that satisfies the heap invariant, with
\* any key of K in each node: the trees verify_self is there to tell apart.
InitVerify ==
  /\ \E S \in SUBSET K : \E tr \in Treaps(S), key \in [S -> K] :
       /\ mem = [a \in S |-> [tr.mem[a] EXCEPT !._key = key[a]]]
       /\ _root = tr.root
       /\ allocated = S
       /\ _node_count = Cardinality(S)
  /\ M = << >>
  /\ _prng_seed = <<0, 0, 0, 0, 0>>
  /\ status = "live"
  /\ draws = 0
  /\ last = [op |-> "tree"]
  /\ twin = Treap(_prng_seed)

\* verify_self()
VerifySelfStep ==
  /\ last.op = "tree"
  /\ LET msg == verify_self(T)
     IN  /\ last' = [op |-> "verify_self", assert |-> msg]
         /\ status' = IF msg # "" THEN "aborted" ELSE "live"
  /\ UNCHANGED <<TreapVars, draws, M, twin>>

\* One run of verify_self on such a tree.
SpecVerify == InitVerify /\ [][VerifySelfStep]_vars

\* Any sequence of queries on a valid treap.
SpecQuery == InitSplitMerge /\ [][NextQuery]_vars

(***************************************************************************)
(* Vocabulary of the properties.                                           *)
(***************************************************************************)
\* The keys of the nodes the treap holds.
Keys == { mem[n]._key : n \in Nodes(mem, _root) }

\* The keys of a sequence of nodes.
KeysOf(m, nodes) == [i \in 1 .. Len(nodes) |-> m[nodes[i]]._key]

StrictlyIncreasing(ks) == \A i \in 1 .. (Len(ks) - 1) : ks[i] < ks[i + 1]

\* The tree below node n without its addresses: the key, value and
\* priority at every position.
RECURSIVE Shape(_, _)
Shape(m, n) ==
  IF n = NULL THEN << >>
  ELSE [key      |-> m[n]._key,
        value    |-> m[n]._value,
        priority |-> m[n]._priority,
        left     |-> Shape(m, m[n]._left),
        right    |-> Shape(m, m[n]._right)]

\* The keys of the tree below node n.
KeysBelow(m, n) == { m[a]._key : a \in Nodes(m, n) }

\* The tree below node n is a binary search tree: its in-order walk visits
\* every node once, by strictly increasing key.
IsSearchTree(m, n) ==
  LET nodes == visit_in_order(m, n)
  IN  /\ StrictlyIncreasing(KeysOf(m, nodes))
      /\ Len(nodes) = Cardinality(Nodes(m, n))

\* No node below n has a child of larger priority.
IsHeap(m, n) ==
  \A p \in Nodes(m, n) :
    \A c \in {m[p]._left, m[p]._right} \ {NULL} :
      u64_geq(m[p]._priority, m[c]._priority)

\* The canonical tree of the nodes S, whose priorities are pairwise
\* distinct: the node of highest priority on top, the canonical tree of
\* the smaller keys to its left and that of the larger keys to its right.
RECURSIVE CanonicalShape(_, _)
CanonicalShape(m, S) ==
  IF S = {} THEN << >>
  ELSE LET top == CHOOSE n \in S :
                    \A o \in S \ {n} : u64_gt(m[n]._priority, m[o]._priority)
       IN  [key      |-> m[top]._key,
            value    |-> m[top]._value,
            priority |-> m[top]._priority,
            left     |-> CanonicalShape(m, { n \in S : m[n]._key < m[top]._key }),
            right    |-> CanonicalShape(m, { n \in S : m[n]._key > m[top]._key })]

\* The priorities of the nodes S are pairwise distinct.
DistinctPriorities(m, S) ==
  \A a \in S : \A b \in S \ {a} : m[a]._priority # m[b]._priority

\* The step just taken was remove(k) / upsert(k, _).
RemoveStep(k) == last'.op = "remove" /\ last'.k = k
UpsertStep(k) == last'.op = "upsert" /\ last'.k = k

(***************************************************************************)
(* C1.  The treap refines the abstract map M: after every upsert and       *)
(* remove, for every key k, find(k) returns a node with key k and value    *)
(* M[k] when k is in the domain of M, and nullptr when it is not.          *)
(***************************************************************************)
C1_FindRefinesMap ==
  \A k \in QK :
    LET n == find(mem, _root, k)
    IN  IF k \in DOMAIN M
        THEN n # NULL /\ mem[n]._key = k /\ mem[n]._value = M[k]
        ELSE n = NULL

\* A remove has just freed a node, two keys remain, one of them was
\* overwritten to value 2 and is found below the root.
C1_Witness ==
  /\ last.op = "remove" /\ last.path = "free"
  /\ Cardinality(DOMAIN M) = 2
  /\ \E k \in DOMAIN M :
       /\ M[k] = 2
       /\ find(mem, _root, k) # _root
       /\ mem[find(mem, _root, k)]._value = 2

(***************************************************************************)
(* C2.  After every upsert and remove the in-order traversal yields        *)
(* strictly increasing keys, and the number of nodes it visits is          *)
(* _node_count.                                                            *)
(***************************************************************************)
C2_InOrderSortedAndCounted ==
  LET nodes == visit_in_order(mem, _root)
  IN  /\ StrictlyIncreasing(KeysOf(mem, nodes))
      /\ Len(nodes) = _node_count

\* A remove has just freed one of three nodes: two are visited, the second
\* of them reached through the right child of the first.
C2_Witness ==
  /\ last.op = "remove" /\ last.path = "free"
  /\ Len(visit_in_order(mem, _root)) = 2
  /\ _node_count = 2
  /\ draws = 3
  /\ mem[_root]._right # NULL

(***************************************************************************)
(* C3.  Heap invariant: after every upsert and remove, every node's        *)
(* priority is >= the priority of each of its children.                    *)
(***************************************************************************)
C3_HeapInvariant ==
  \A p \in Nodes(mem, _root) :
    \A n \in {mem[p]._left, mem[p]._right} \ {NULL} :
      u64_geq(mem[p]._priority, mem[n]._priority)

\* A remove has just freed the middle key of a three-node treap and merged
\* the smaller key's subtree with the larger key's: a parent and a child
\* remain.
C3_Witness ==
  /\ last.op = "remove" /\ last.path = "free"
  /\ draws = 3
  /\ _root # NULL
  /\ \E k \in K : k < last.k /\ find(mem, _root, k) # NULL
  /\ \E k \in K : k > last.k /\ find(mem, _root, k) # NULL

(***************************************************************************)
(* C5.  remove(k) of a present key k decreases _node_count by exactly 1,   *)
(* find(k) is nullptr afterwards, and every other key is present after     *)
(* the call exactly when it was present before, with the same value.       *)
(***************************************************************************)
C5_RemovePresent ==
  [][ \A k \in K :
        (RemoveStep(k) /\ find(mem, _root, k) # NULL) =>
          /\ _node_count' = _node_count - 1
          /\ find(mem', _root', k) = NULL
          /\ \A j \in K \ {k} :
               LET before == find(mem, _root, j)
                   after  == find(mem', _root', j)
               IN  /\ (before = NULL) = (after = NULL)
                   /\ before # NULL => mem'[after]._value = mem[before]._value
    ]_vars

\* A remove has just freed the middle key of three; the two others, one of
\* them holding value 2, are still found.
C5_Witness ==
  /\ last.op = "remove" /\ last.path = "free" /\ last.k = 2
  /\ _node_count = 2
  /\ find(mem, _root, 2) = NULL
  /\ find(mem, _root, 1) # NULL
  /\ find(mem, _root, 3) # NULL
  /\ mem[find(mem, _root, 3)]._value = 2

(***************************************************************************)
(* C6.  remove(k) of an absent key k is a no-op: the root, every node's    *)
(* children, key, value and priority, the set of allocated nodes and       *)
(* _node_count are the same after the call as before it.                   *)
(***************************************************************************)
C6_RemoveAbsentIsNoOp ==
  [][ \A k \in K :
        (RemoveStep(k) /\ find(mem, _root, k) = NULL) =>
          /\ _root' = _root
          /\ mem' = mem
          /\ allocated' = allocated
          /\ _node_count' = _node_count
          /\ _prng_seed' = _prng_seed
    ]_vars

\* remove(2) has just found nothing to free in a treap holding the keys 1
\* and 3: both splits cut between the two nodes and the merge rejoined them.
C6_Witness ==
  /\ last.op = "remove" /\ last.path = "absent" /\ last.k = 2
  /\ Keys = {1, 3}
  /\ _node_count = 2

(***************************************************************************)
(* C7.  upsert(k, v2) of a present key k overwrites the value in place:    *)
(* find(k) then yields v2, and _node_count, the root, every node's         *)
(* children, key and priority, the priority-generator state and the set    *)
(* of allocated nodes are unchanged.                                       *)
(***************************************************************************)
C7_UpsertPresentOverwrites ==
  [][ \A k \in K :
        (UpsertStep(k) /\ find(mem, _root, k) # NULL) =>
          LET n == find(mem, _root, k)
          IN  /\ find(mem', _root', k) = n
              /\ mem'[n]._value = M'[k]
              /\ mem' = [mem EXCEPT ![n]._value = M'[k]]
              /\ _root' = _root
              /\ _node_count' = _node_count
              /\ _prng_seed' = _prng_seed
              /\ allocated' = allocated
              /\ draws' = draws
    ]_vars

\* An upsert has just changed the value of a key below the root from 1 to 2.
C7_Witness ==
  /\ last.op = "upsert" /\ last.path = "update"
  /\ _node_count = 3
  /\ find(mem, _root, last.k) # _root
  /\ mem[find(mem, _root, last.k)]._value = 2

(***************************************************************************)
(* C8.  For every key k, closest_leq(k) returns the node with key k when   *)
(* k is present, the node with the largest key < k when k is absent and    *)
(* smaller keys exist, and nullptr when no key is <= k.                    *)
(***************************************************************************)
C8_ClosestLeq ==
  \A k \in QK :
    LET c     == closest_leq(mem, _root, k)
        below == { j \in Keys : j <= k }
    IN  IF below = {}
        THEN c = NULL
        ELSE /\ c \in Nodes(mem, _root)
             /\ mem[c]._key \in below
             /\ \A j \in below : j <= mem[c]._key

\* The treap holds 1 and 3 with 3 at the root: closest_leq(2) passes the
\* root and returns the node of key 1, closest_leq(0) returns nullptr and
\* closest_leq(3) returns the root.
C8_Witness ==
  /\ Keys = {1, 3}
  /\ mem[_root]._key = 3
  /\ closest_leq(mem, _root, 2) = mem[_root]._left
  /\ closest_leq(mem, _root, 0) = NULL
  /\ closest_leq(mem, _root, 3) = _root

(***************************************************************************)
(* C9.  For all keys from and to, visit_range_in_order(from, to, f) calls  *)
(* f exactly once for each node with from <= key < to, in ascending key    *)
(* order, and for no other node.                                           *)
(***************************************************************************)
C9_VisitRange ==
  \A from \in QK, to \in QK :
    LET ks == KeysOf(mem, visit_range_in_order(mem, _root, from, to))
    IN  /\ StrictlyIncreasing(ks)
        /\ { ks[i] : i \in 1 .. Len(ks) } = { j \in Keys : from <= j /\ j < to }
        /\ \A i \in 1 .. Len(ks) :
             visit_range_in_order(mem, _root, from, to)[i] \in Nodes(mem, _root)

\* The treap holds 1, 2 and 3: the range [2, 3) visits the node of key 2
\* alone, [1, 4) visits all three, and [3, 1) visits nothing.
C9_Witness ==
  /\ Keys = {1, 2, 3}
  /\ KeysOf(mem, visit_range_in_order(mem, _root, 2, 3)) = <<2>>
  /\ KeysOf(mem, visit_range_in_order(mem, _root, 1, 4)) = <<1, 2, 3>>
  /\ visit_range_in_order(mem, _root, 3, 1) = << >>

(***************************************************************************)
(* C10.  For every valid treap T, every key k and both split modes,        *)
(* merging the two results of split(T, k, mode) gives a tree that holds    *)
(* exactly the keys of T, each once.                                       *)
(***************************************************************************)
C10_MergeOfSplitKeepsKeys ==
  last.op = "merge" =>
    LET nodes == visit_in_order(mem, last.root)
    IN  /\ { mem[n]._key : n \in Nodes(mem, last.root) } = DOMAIN M
        /\ { nodes[i] : i \in 1 .. Len(nodes) } = allocated
        /\ Len(nodes) = Cardinality(DOMAIN M)

\* A treap of three keys whose priorities tie was split at its middle key,
\* which went to the right result (mode LT), and merged again; both results
\* of the split were non-empty.
C10_Witness ==
  /\ last.op = "merge" /\ last.k = 2 /\ last.mode = "LT"
  /\ last.left # NULL /\ last.right # NULL
  /\ DOMAIN M = {1, 2, 3}
  /\ \A n \in allocated : mem[n]._priority = <<1, 0, 0, 0, 0>>
  /\ Cardinality(Nodes(mem, last.root)) = 3

(***************************************************************************)
(* C4.  After remove_all() the node count is 0 and the root is empty, so   *)
(* an in-order traversal visits no node; an upsert(k, v) that follows      *)
(* succeeds and leaves a treap holding exactly the entry (k, v), with      *)
(* node count 1.                                                           *)
(***************************************************************************)
C4_RemoveAllThenUpsert ==
  [][ /\ last'.op = "remove_all" =>
           /\ _node_count' = 0
           /\ _root' = NULL
           /\ visit_in_order(mem', _root') = << >>
      /\ \A k \in K :
           (last.op = "remove_all" /\ UpsertStep(k)) =>
             /\ status' = "live"
             /\ _node_count' = 1
             /\ _root' # NULL
             /\ Nodes(mem', _root') = {_root'}
             /\ mem'[_root']._key = k
             /\ M' = [j \in {k} |-> mem'[_root']._value]
    ]_vars

(***************************************************************************)
(* C11.  Over the life of the container (upsert, remove and remove_all     *)
(* calls, then its destruction) every node allocated by upsert is passed   *)
(* to the allocator's free exactly once: each remove that frees releases   *)
(* one allocated node, each remove_all and the destructor release only     *)
(* nodes that are allocated at that time, each once, and when the          *)
(* destructor returns no node is left allocated.                           *)
(***************************************************************************)
C11_EveryNodeReleasedOnce ==
  [][ /\ (last'.op = "remove" /\ "path" \in DOMAIN last') =>
           /\ allocated' \subseteq allocated
           /\ Cardinality(allocated \ allocated') =
                (IF last'.path = "free" THEN 1 ELSE 0)
      /\ (last'.op \in {"remove_all", "~Treap"} /\ "frees" \in DOMAIN last') =>
           /\ \A i \in 1 .. Len(last'.frees) :
                /\ last'.frees[i] \in allocated
                /\ \A j \in 1 .. Len(last'.frees) :
                     last'.frees[i] = last'.frees[j] => i = j
           /\ allocated' = allocated \ { last'.frees[i] : i \in 1 .. Len(last'.frees) }
      /\ (last'.op = "~Treap" /\ "frees" \in DOMAIN last') => allocated' = {}
    ]_vars

(***************************************************************************)
(* C12.  Two treaps constructed with the same seed and given the same      *)
(* sequence of upsert and remove calls are in identical states after       *)
(* every call: the same priority-generator state, the same node count,     *)
(* and the same tree shape with the same key, value and priority at every  *)
(* position, wherever the allocator placed their nodes.                    *)
(***************************************************************************)
C12_SameSeedSameTreap ==
  /\ twin._prng_seed = _prng_seed
  /\ twin._node_count = _node_count
  /\ Shape(twin.mem, twin._root) = Shape(mem, _root)
  /\ last.op \in {"upsert", "remove"} => last.twin_assert = last.assert

\* Both objects have inserted a key, freed it and inserted two more; each
\* holds a parent and a child, and the two objects keep them at different
\* addresses.
C12_Witness ==
  /\ last.op = "upsert" /\ last.path = "insert"
  /\ draws = 3
  /\ _node_count = 2
  /\ twin._root # _root
  /\ twin.allocated # allocated
  /\ Shape(mem, _root).left # << >> \/ Shape(mem, _root).right # << >>

(***************************************************************************)
(* C13.  The queries find, closest_leq, visit_in_order and                 *)
(* visit_range_in_order do not restructure the container: each leaves the  *)
(* root, every node's children, key, value and priority, the node count    *)
(* and the priority-generator state unchanged.                             *)
(***************************************************************************)
C13_QueriesLeaveTreapUnchanged ==
  [][ last'.op \in {"find", "closest_leq", "visit_in_order",
                    "visit_range_in_order"} =>
        /\ _root' = _root
        /\ mem' = mem
        /\ _node_count' = _node_count
        /\ _prng_seed' = _prng_seed
        /\ allocated' = allocated
    ]_vars

\* closest_leq(2) has just walked from the root of a three-node treap to a
\* node below it and returned that node.
C13_Witness ==
  /\ last.op = "closest_leq" /\ last.k = 2
  /\ _node_count = 3
  /\ last.ret # NULL /\ last.ret # _root
  /\ mem[last.ret]._key = 2

(***************************************************************************)
(* C14.  For every valid treap T and key k, split(T, k, LEQ) returns       *)
(* (L, R) with L holding exactly the keys of T that are <= k and R the     *)
(* keys > k; split(T, k, LT) returns L holding exactly the keys < k and R  *)
(* the keys >= k; L and R are each a binary search tree satisfying the     *)
(* heap invariant, and the split of an empty tree is two empty trees.      *)
(***************************************************************************)
C14_SplitPartitions ==
  last.op = "split" =>
    /\ KeysBelow(mem, last.left) =
         { j \in DOMAIN M : IF last.mode = "LEQ" THEN j <= last.k ELSE j < last.k }
    /\ KeysBelow(mem, last.right) =
         { j \in DOMAIN M : IF last.mode = "LEQ" THEN j > last.k ELSE j >= last.k }
    /\ Nodes(mem, last.left) \cap Nodes(mem, last.right) = {}
    /\ Nodes(mem, last.left) \cup Nodes(mem, last.right) = allocated
    /\ IsSearchTree(mem, last.left) /\ IsSearchTree(mem, last.right)
    /\ IsHeap(mem, last.left) /\ IsHeap(mem, last.right)
    /\ _root = NULL => (last.left = NULL /\ last.right = NULL)

\* A treap with key 3 at the root and the keys 1 and 2 below it was split
\* at 2 in mode LEQ: the root went right and lost its left subtree, whose
\* two nodes form the left result.
C14_Witness ==
  /\ last.op = "split" /\ last.k = 2 /\ last.mode = "LEQ"
  /\ _root = 3
  /\ last.right = 3
  /\ mem[3]._left = NULL
  /\ KeysBelow(mem, last.left) = {1, 2}

(***************************************************************************)
(* C15.  For any two valid treaps L and R with every key of L below every  *)
(* key of R, merge(L, R) returns one tree that is a binary search tree,    *)
(* satisfies the heap invariant and holds exactly the nodes of L and R;    *)
(* its root is the root of L when L's root priority is strictly greater    *)
(* than R's and the root of R otherwise (also on a tie); when either       *)
(* input is empty the other is returned unchanged.                         *)
(***************************************************************************)
C15_MergeJoins ==
  [][ (last.op = "pair" /\ last'.op = "merge") =>
        /\ IsSearchTree(mem', last'.root)
        /\ IsHeap(mem', last'.root)
        /\ Nodes(mem', last'.root) =
             Nodes(mem, last.left) \cup Nodes(mem, last.right)
        /\ \A n \in Nodes(mem', last'.root) :
             /\ mem'[n]._key = mem[n]._key
             /\ mem'[n]._value = mem[n]._value
             /\ mem'[n]._priority = mem[n]._priority
        /\ last.left = NULL => (last'.root = last.right /\ mem' = mem)
        /\ last.right = NULL => (last'.root = last.left /\ mem' = mem)
        /\ (last.left # NULL /\ last.right # NULL) =>
             last'.root = IF u64_gt(mem[last.left]._priority,
                                    mem[last.right]._priority)
                          THEN last.left ELSE last.right
    ]_vars

\* Two treaps whose roots have the same priority were merged: the root of
\* the right one is the root of the result, and the left one, of two nodes,
\* hangs below it.
C15_Witness ==
  /\ last.op = "merge"
  /\ last.left # NULL /\ last.right # NULL
  /\ mem[last.left]._priority = mem[last.right]._priority
  /\ last.root = last.right
  /\ Cardinality(Nodes(mem, last.left)) = 2
  /\ Cardinality(Nodes(mem, last.root)) = 3

(***************************************************************************)
(* C16.  In remove(k) on any treap reachable by upsert and remove, the     *)
(* right result of the second split (LT, applied to the '<= k' half) is    *)
(* either empty or a single node with key k and no children; so freeing    *)
(* that one node frees no node of another key and detaches no node from    *)
(* the tree that is merged back.                                           *)
(***************************************************************************)
C16_SecondSplitIsolatesKey ==
  [][ \A k \in K :
        RemoveStep(k) =>
          LET s  == remove_splits(T, k).second_split
              eq == s.right
          IN  /\ eq # NULL =>
                   /\ s.mem[eq]._key = k
                   /\ s.mem[eq]._left = NULL
                   /\ s.mem[eq]._right = NULL
              /\ allocated' = allocated \ {eq}
              /\ Nodes(mem', _root') = allocated'
              /\ Keys' = Keys \ {k}
    ]_vars

\* remove(2) has just freed the node of key 2 out of three: the nodes of
\* the keys 1 and 3, which the two splits left on either side of it, are
\* the whole tree again and the only storage still allocated.
C16_Witness ==
  /\ last.op = "remove" /\ last.path = "free" /\ last.k = 2
  /\ Keys = {1, 3}
  /\ Cardinality(allocated) = 2
  /\ Nodes(mem, _root) = allocated
  /\ DOMAIN mem = allocated

(***************************************************************************)
(* C17.  verify_self confirms that the keys are strictly increasing in     *)
(* the in-order walk: when the walk meets two consecutive nodes whose keys *)
(* are not strictly increasing (out of order or equal), the key-order      *)
(* assertion fails, and it passes only when every consecutive pair is      *)
(* strictly increasing.                                                    *)
(***************************************************************************)
C17_VerifySelfChecksKeyOrder ==
  (/\ last.op = "verify_self"
   /\ last.assert \in
        {"", "keys was not monotonically strongly increasing when visiting in order"})
    => (last.assert = ""
          <=> StrictlyIncreasing(KeysOf(mem, visit_in_order(mem, _root))))

(***************************************************************************)
(* C18.  One remove_all() call on a treap reachable by upsert and remove   *)
(* terminates, working through its list to_delete, and passes every node   *)
(* that was reachable from the root when it was called to the allocator's  *)
(* free exactly once, and nothing else.                                    *)
(***************************************************************************)
C18_RemoveAllFreesEachNodeOnce ==
  [][ (last'.op = "remove_all" /\ status = "live" /\ Defined) =>
        LET frees == last'.frees
        IN  /\ { frees[i] : i \in 1 .. Len(frees) } = Nodes(mem, _root)
            /\ Len(frees) = Cardinality(Nodes(mem, _root))
            /\ allocated' = allocated \ Nodes(mem, _root)
            /\ allocated' = {}
            /\ status' = "live"
    ]_vars

\* remove_all has just freed a treap of three nodes whose root had two
\* children.
C18_Witness ==
  /\ last.op = "remove_all"
  /\ status = "live"
  /\ Len(last.frees) = 3
  /\ mem[_root]._left # NULL /\ mem[_root]._right # NULL
  /\ allocated = {}

(***************************************************************************)
(* C19.  After any sequence of upsert and remove calls the priority of     *)
(* every parent node is strictly larger than the priority of each of its   *)
(* children: no parent and child have equal priorities.                    *)
(***************************************************************************)
C19_ParentStrictlyAbove ==
  \A p \in Nodes(mem, _root) :
    \A c \in {mem[p]._left, mem[p]._right} \ {NULL} :
      u64_gt(mem[p]._priority, mem[c]._priority)

(***************************************************************************)
(* C20.  Canonical shape: after any sequence of upsert and remove calls    *)
(* that leaves live nodes of pairwise distinct priorities, the shape of    *)
(* the tree is determined by the set of (key, priority) pairs alone: the   *)
(* root is the live node of highest priority, its left subtree the         *)
(* canonical tree of the smaller keys and its right subtree that of the    *)
(* larger keys, whatever the order of the insertions and removals.         *)
(***************************************************************************)
C20_CanonicalShape ==
  DistinctPriorities(mem, Nodes(mem, _root)) =>
    Shape(mem, _root) = CanonicalShape(mem, Nodes(mem, _root))

\* The node inserted last, of key 2, has the highest priority of three: it
\* is the root, above the nodes of the keys 1 and 3 inserted before it.
C20_Witness ==
  /\ last.op = "upsert" /\ last.path = "insert" /\ last.k = 2
  /\ _node_count = 3
  /\ DistinctPriorities(mem, Nodes(mem, _root))
  /\ find(mem, _root, 2) = _root
  /\ mem[_root]._left # NULL /\ mem[_root]._right # NULL

=============================================================================
